---------------------------- MODULE Spec2Model ----------------------------
(***************************************************************************)
(* A model of easyxl: range addressing (ExcelRange), range mutation        *)
(* (ExcelRangeWritable) and table bookkeeping (ExcelTable,                 *)
(* ExcelTableWritable, NewExcelTable) of easyxl/base.py, and the older     *)
(* ExcelRange / ExcelTable of easyxl/editor.py.                            *)
(*                                                                         *)
(* Python values are modelled as follows.                                  *)
(*   - A cell value is a tagged string: "None", "s:" (the empty str),      *)
(*     "s: " (a str of one space), "s:a" (the str "a"), "i:0" (the int 0), *)
(*     "b:False".                                                          *)
(*   - An Optional[T] argument or result is a sequence of length 0 (None)  *)
(*     or 1 (the value).                                                   *)
(*   - A range expression such as "A1:C10" is the sequence of its cell     *)
(*     tokens, <<[col |-> "A", row |-> 1], [col |-> "C", row |-> 10]>>;    *)
(*     a one-cell expression such as "B2" has one token.                   *)
(*   - An openpyxl CellRange is the record of its four bounds.             *)
(*   - The outcome of a call is a record whose field exc names the         *)
(*     exception type that escapes the call, or "none".                    *)
(***************************************************************************)
EXTENDS Integers, Sequences, FiniteSets, TLC

VARIABLES ws, table, last

vars == <<ws, table, last>>

(***************************************************************************)
(* Bounds of the model.                                                    *)
(***************************************************************************)
\* Ranges lie in rows 1..MaxRow; the worksheet has one more row below them.
MaxRow == 3
\* Ranges lie in columns 1..MaxCol.
MaxCol == 3

Absent == <<>>
Some(x) == <<x>>

PyNone == "None"

Min2(a, b) == IF a < b THEN a ELSE b

(***************************************************************************)
(* openpyxl.utils.cell: column letters.                                    *)
(***************************************************************************)
Letters == <<"A", "B", "C", "D", "E", "F">>

\* get_column_letter, as CellRange.coord and Cell.coordinate use it
get_column_letter(c) == Letters[c]

\* column_index_from_string; 0 stands for its ValueError on an unknown column
column_index_from_string(s) ==
    IF \E i \in DOMAIN Letters : Letters[i] = s
    THEN CHOOSE i \in DOMAIN Letters : Letters[i] = s
    ELSE 0

\* The textual coordinate of a cell, e.g. "B2"
coordinate(r, c) == [col |-> get_column_letter(c), row |-> r]

(***************************************************************************)
(* openpyxl.worksheet.cell_range.CellRange, as ExcelRange uses it.         *)
(***************************************************************************)
NoRange == [min_row |-> 0, min_col |-> 0, max_row |-> 0, max_col |-> 0]

\* CellRange(min_col=, min_row=, max_col=, max_row=): every bound is at least
\* 1 (ValueError otherwise), and min <= max (ValueError otherwise).
CellRange_bounds(min_row, min_col, max_row, max_col) ==
    IF min_col < 1 \/ min_row < 1 \/ max_col < 1 \/ max_row < 1
    THEN [exc |-> "ValueError", rng |-> NoRange]
    ELSE IF min_col > max_col \/ min_row > max_row
    THEN [exc |-> "ValueError", rng |-> NoRange]
    ELSE [exc |-> "none",
          rng |-> [min_row |-> min_row, min_col |-> min_col,
                   max_row |-> max_row, max_col |-> max_col]]

\* CellRange(range_string): range_boundaries parses one or two cell tokens
\* (ValueError on anything else or on an unknown column), then the bounds are
\* checked as above.
CellRange_parse(expr) ==
    IF Len(expr) \notin {1, 2}
    THEN [exc |-> "ValueError", rng |-> NoRange]
    ELSE LET first == expr[1]
             second == expr[Len(expr)]
             c1 == column_index_from_string(first.col)
             c2 == column_index_from_string(second.col)
         IN  IF c1 = 0 \/ c2 = 0
             THEN [exc |-> "ValueError", rng |-> NoRange]
             ELSE CellRange_bounds(first.row, c1, second.row, c2)

\* CellRange.__str__ / CellRange.coord: "A1:B3", or "A1" for a single cell
CellRange_str(rg) ==
    IF rg.min_col = rg.max_col /\ rg.min_row = rg.max_row
    THEN <<coordinate(rg.min_row, rg.min_col)>>
    ELSE <<coordinate(rg.min_row, rg.min_col), coordinate(rg.max_row, rg.max_col)>>

\* CellRange.rows: per row, the list of its (row, col) pairs
CellRange_rows(rg) ==
    [i \in 1..(rg.max_row - rg.min_row + 1) |->
        [j \in 1..(rg.max_col - rg.min_col + 1) |->
            <<rg.min_row + i - 1, rg.min_col + j - 1>>]]

\* CellRange.cols: per column, the list of its (row, col) pairs
CellRange_cols(rg) ==
    [j \in 1..(rg.max_col - rg.min_col + 1) |->
        [i \in 1..(rg.max_row - rg.min_row + 1) |->
            <<rg.min_row + i - 1, rg.min_col + j - 1>>]]

\* CellRange.bottom: the (row, col) pairs of the last row
CellRange_bottom(rg) ==
    [j \in 1..(rg.max_col - rg.min_col + 1) |-> <<rg.max_row, rg.min_col + j - 1>>]

\* CellRange.cells: the (row, col) pairs of the range, row by row
CellRange_cells(rg) ==
    LET w == rg.max_col - rg.min_col + 1
        h == rg.max_row - rg.min_row + 1
    IN  IF w < 1 \/ h < 1 THEN <<>>
        ELSE [k \in 1..(w * h) |->
                <<rg.min_row + ((k - 1) \div w), rg.min_col + ((k - 1) % w)>>]

\* CellRange.shift(row_shift=n)
CellRange_shift(rg, n) ==
    [rg EXCEPT !.min_row = @ + n, !.max_row = @ + n]

\* CellRange.expand(right, down, left, up): no validation
CellRange_expand(rg, right, down, left, up) ==
    [rg EXCEPT !.min_col = @ - left, !.min_row = @ - up,
               !.max_col = @ + right, !.max_row = @ + down]

\* CellRange.issubset(other)
CellRange_issubset(rg, other) ==
    /\ other.min_row <= rg.min_row /\ rg.max_row <= other.max_row
    /\ other.min_col <= rg.min_col /\ rg.max_col <= other.max_col

(***************************************************************************)
(* easyxl.base.ExcelRange                                                  *)
(***************************************************************************)
\* What escapes the clause "except ValueError | TypeError:" when the guarded
\* call raised exc: the clause's expression is a types.UnionType, not an
\* exception class, so matching against it raises TypeError.
ExceptUnionType(exc) == "TypeError"

\* ExcelRange.__init__(worksheet, range_expression, coordinates); the two
\* Optional arguments are sequences of length 0 or 1.
ExcelRange_init(range_expression, coordinates) ==
    IF range_expression # Absent
    THEN LET r == CellRange_parse(range_expression[1])
         IN  IF r.exc \in {"ValueError", "TypeError"}
             THEN [exc |-> "InvalidRangeFormat", rng |-> NoRange]
             ELSE r
    ELSE IF coordinates # Absent
    THEN LET c == coordinates[1]
             r == CellRange_bounds(c[1][1], c[1][2], c[2][1], c[2][2])
         IN  IF r.exc # "none"
             THEN [exc |-> ExceptUnionType(r.exc), rng |-> NoRange]
             ELSE r
    ELSE [exc |-> "InvalidRangeFormat", rng |-> NoRange]

\* Python's seq[i]: 0-based, negative indexes count from the end; the result
\* is the 1-based position, or 0 for IndexError.
PyIndex(seq, i) ==
    IF 0 <= i /\ i < Len(seq) THEN i + 1
    ELSE IF i < 0 /\ -Len(seq) <= i THEN Len(seq) + i + 1
    ELSE 0

\* rows, were each row built from its first cell alone
rows_first_cell_only(rg) ==
    LET rr == CellRange_rows(rg)
    IN  [i \in DOMAIN rr |->
            ExcelRange_init(Absent, Some(<<rr[i][1], rr[i][1]>>)).rng]

\* ExcelRange.rows
rows(rg) ==
    LET rr == CellRange_rows(rg)
    IN  [i \in DOMAIN rr |->
            ExcelRange_init(Absent, Some(<<rr[i][1], rr[i][Len(rr[i])]>>)).rng]

\* ExcelRange.columns
columns(rg) ==
    LET cc == CellRange_cols(rg)
    IN  [j \in DOMAIN cc |->
            ExcelRange_init(Absent, Some(<<cc[j][1], cc[j][Len(cc[j])]>>)).rng]

\* The second corner ExcelRange.next_row takes from CellRange.bottom:
\* bottom[1], the second cell of the bottom row (0: IndexError)
next_row_corner(bottom) == PyIndex(bottom, 1)

\* ExcelRange.next_row
next_row(rg) ==
    LET bottom == CellRange_bottom(rg)
        k == next_row_corner(bottom)
    IN  IF Len(bottom) = 0 \/ k = 0
        THEN [exc |-> "IndexError", rng |-> NoRange]
        ELSE LET r == ExcelRange_init(Absent, Some(<<bottom[1], bottom[k]>>))
             IN  IF r.exc # "none" THEN r
                 ELSE [exc |-> "none", rng |-> CellRange_shift(r.rng, 1)]

(***************************************************************************)
(* Cell values and Python truthiness, as ExcelRange.is_empty reads them.   *)
(***************************************************************************)
\* Items of the data rows the model writes
XVals == <<"s:x1", "s:x2", "s:x3", "s:x4", "s:x5", "s:x6">>

\* type(v) == str
IsStr(v) == v \in {"s:", "s: ", "s:a"} \cup {XVals[i] : i \in DOMAIN XVals}

\* v.strip()
Strip(v) == IF v = "s: " THEN "s:" ELSE v

\* bool(v)
Truthy(v) == v \notin {"None", "s:", "i:0", "b:False"}

\* ExcelRange.cells: the worksheet positions of the range's cells
cells(rg) == CellRange_cells(rg)

\* Whether ExcelRange.is_empty stops at value v with False
is_empty_stops(v) ==
    IF IsStr(v) /\ Truthy(Strip(v)) THEN TRUE
    ELSE Truthy(v)

\* ExcelRange.is_empty
is_empty(sheet, rg) ==
    \A k \in DOMAIN cells(rg) : ~ is_empty_stops(sheet[cells(rg)[k]])

\* ExcelRange.first_free_row: Some(row), or Absent for None
first_free_row(sheet, rg) ==
    LET rr == rows(rg)
        free == {i \in DOMAIN rr : is_empty(sheet, rr[i])}
    IN  IF free = {} THEN Absent
        ELSE Some(rr[CHOOSE i \in free : \A j \in free : i <= j])

\* The rows ExcelRange.last_free_block collects: every empty row of the range
free_rows(sheet, rg) ==
    LET rr == rows(rg)
    IN  {i \in DOMAIN rr : is_empty(sheet, rr[i])}

\* ExcelRange.last_free_block: from the first cell of the topmost collected
\* row to the last cell of the bottommost one, through the expression
\* "<top_left>:<bottom_right>"
last_free_block(sheet, rg) ==
    LET rr == rows(rg)
        free == free_rows(sheet, rg)
    IN  IF free = {} THEN [exc |-> "none", val |-> Absent]
        ELSE LET top == rr[CHOOSE i \in free : \A j \in free : i <= j]
                 bot == rr[CHOOSE i \in free : \A j \in free : i >= j]
                 tc == cells(top)[1]
                 bc == cells(bot)[Len(cells(bot))]
                 r == ExcelRange_init(
                        Some(<<coordinate(tc[1], tc[2]), coordinate(bc[1], bc[2])>>),
                        Absent)
             IN  [exc |-> r.exc,
                  val |-> IF r.exc = "none" THEN Some(r.rng) ELSE Absent]

\* ExcelRange.expand(right, down, left, up) of base.py
expand(rg, right, down, left, up) == CellRange_expand(rg, right, down, left, up)

(***************************************************************************)
(* easyxl.base.ExcelRangeWritable                                          *)
(***************************************************************************)
\* ExcelRangeWritable.convert_range_to_writable: a new range from str(range)
convert_range_to_writable(rg) == ExcelRange_init(Some(CellRange_str(rg)), Absent)

\* The row write_to_row picks for index: self.rows[index] (0: IndexError)
write_to_row_pick(rr, index) == PyIndex(rr, index)

\* The sheet after "for i, item in enumerate(data): row.cells[i].value = item"
write_items(sheet, row, data) ==
    [p \in DOMAIN sheet |->
        IF \E i \in DOMAIN data : i <= Len(cells(row)) /\ cells(row)[i] = p
        THEN data[CHOOSE i \in DOMAIN data : i <= Len(cells(row)) /\ cells(row)[i] = p]
        ELSE sheet[p]]

\* ExcelRangeWritable.write_to_row(index, data)
write_to_row(sheet, rg, index, data) ==
    LET rr == rows(rg)
        k == write_to_row_pick(rr, index)
    IN  IF k = 0 THEN [exc |-> "Exception", ws |-> sheet]
        ELSE IF Len(cells(rr[k])) < Len(data)
        THEN [exc |-> "Exception", ws |-> sheet]
        ELSE [exc |-> "none", ws |-> write_items(sheet, rr[k], data)]

\* first_empty_candidates, were the emptiness test left out
first_empty_candidates_any(sheet, rg) == DOMAIN rows(rg)

\* The rows write_to_first_empty_row may pick: those is_empty reports empty
first_empty_candidates(sheet, rg) ==
    {i \in DOMAIN rows(rg) : is_empty(sheet, rows(rg)[i])}

\* ExcelRangeWritable.write_to_first_empty_row(data)
write_to_first_empty_row(sheet, rg, data) ==
    LET free == first_empty_candidates(sheet, rg)
    IN  IF free = {} THEN [exc |-> "Exception", ws |-> sheet]
        ELSE write_to_row(sheet, rg, (CHOOSE i \in free : \A j \in free : i <= j) - 1, data)

\* The loop of write_data from data row i (1-based) on: write_to_row(i - 1,
\* data[i]) per row, stopping at the first one that raises; rows written
\* before that stay written.
RECURSIVE write_data_from(_, _, _, _)
write_data_from(sheet, rg, data, i) ==
    IF i > Len(data) THEN [exc |-> "none", ws |-> sheet]
    ELSE LET w == write_to_row(sheet, rg, i - 1, data[i])
         IN  IF w.exc # "none" THEN w
             ELSE write_data_from(w.ws, rg, data, i + 1)

\* ExcelRangeWritable.write_data(data)
write_data(sheet, rg, data) ==
    IF Len(data) > Len(rows(rg)) THEN [exc |-> "Exception", ws |-> sheet]
    ELSE write_data_from(sheet, rg, data, 1)

\* The range append_data writes into: the writable copy of last_free_block
append_data_target(free_range) == convert_range_to_writable(free_range)

\* ExcelRangeWritable.append_data(data)
append_data(sheet, rg, data) ==
    LET free_range == last_free_block(sheet, rg)
    IN  IF free_range.exc # "none" THEN [exc |-> free_range.exc, ws |-> sheet]
        ELSE IF free_range.val = Absent THEN [exc |-> "Exception", ws |-> sheet]
        ELSE LET writeable_range == append_data_target(free_range.val[1])
             IN  IF writeable_range.exc # "none"
                 THEN [exc |-> writeable_range.exc, ws |-> sheet]
                 ELSE write_data(sheet, writeable_range.rng, data)

(***************************************************************************)
(* easyxl.base.ExcelTable, ExcelTableWritable and NewExcelTable.  A table  *)
(* is the openpyxl Table it wraps: its ref (a range expression) and the    *)
(* names of its tableColumns.                                              *)
(***************************************************************************)
\* ExcelTable.categories
categories(tbl) == tbl.tableColumns

\* ExcelTable.range: ExcelRange(ws, table.ref)
ExcelTable_range(tbl) == ExcelRange_init(Some(tbl.ref), Absent).rng

\* ExcelTableWritable.range: the same range, made writable
ExcelTableWritable_range(tbl) == convert_range_to_writable(ExcelTable_range(tbl)).rng

\* The rows ExcelTable.first_free_row scans: self.range.rows[1:]
rows_below_header(rg) == SubSeq(rows(rg), 2, Len(rows(rg)))

\* ExcelTable.first_free_row
ExcelTable_first_free_row(sheet, tbl) ==
    LET rg == ExcelTable_range(tbl)
        rr == rows_below_header(rg)
        free == {i \in DOMAIN rr : is_empty(sheet, rr[i])}
    IN  IF free # {}
        THEN [exc |-> "none", rng |-> rr[CHOOSE i \in free : \A j \in free : i <= j]]
        ELSE next_row(rg)

\* category_index_map[category] of ExcelTableWritable.append: the last index
\* of the category, 0 for a KeyError
category_index(cats, category) ==
    IF \E i \in DOMAIN cats : cats[i] = category
    THEN CHOOSE i \in DOMAIN cats : cats[i] = category /\ \A j \in DOMAIN cats : cats[j] = category => j <= i
    ELSE 0

\* The row_values ExcelTableWritable.append builds for an entry.  A dict entry
\* is a function from category names to values; a sequence entry is taken
\* as it is.
row_values(cats, entry) ==
    IF entry.kind = "dict"
    THEN IF \E k \in DOMAIN entry.items : category_index(cats, k) = 0
         THEN [exc |-> "KeyError", values |-> <<>>]
         ELSE [exc |-> "none",
               values |-> [i \in DOMAIN cats |->
                    IF \E k \in DOMAIN entry.items : category_index(cats, k) = i
                    THEN entry.items[CHOOSE k \in DOMAIN entry.items : category_index(cats, k) = i]
                    ELSE PyNone]]
    ELSE [exc |-> "none", values |-> entry.items]

\* The step ExcelTableWritable.append takes for one entry, on the table's range
append_entry(sheet, rg, values) == write_to_first_empty_row(sheet, rg, values)

\* ExcelTableWritable.append(data): the entries in order, stopping at the
\* first one that raises; cells written before that stay written.
RECURSIVE ExcelTableWritable_append(_, _, _)
ExcelTableWritable_append(sheet, tbl, data) ==
    IF data = <<>> THEN [exc |-> "none", ws |-> sheet]
    ELSE LET rv == row_values(categories(tbl), Head(data))
         IN  IF rv.exc # "none" THEN [exc |-> rv.exc, ws |-> sheet]
             ELSE LET w == append_entry(sheet, ExcelTableWritable_range(tbl), rv.values)
                  IN  IF w.exc # "none" THEN w
                      ELSE ExcelTableWritable_append(w.ws, tbl, Tail(data))

\* get_range_object(range, writable=True) as NewExcelTable.__init__ calls it,
\* without a worksheet: an ExcelRange is converted, a str has no worksheet to
\* be resolved against.
get_range_object(range) ==
    IF range.kind = "ExcelRange" THEN convert_range_to_writable(range.rng)
    ELSE [exc |-> "Exception", rng |-> NoRange]

\* The rows NewExcelTable.__init__ adds below the range before it writes the
\* header: range.expand(down=-1)
header_expand_down == -1

\* Table._initialise_columns: one column per column of ref, named "Column<idx>"
DefaultColumnNames == <<"Column1", "Column2", "Column3", "Column4", "Column5", "Column6">>

initialise_columns(rg) ==
    [j \in 1..(rg.max_col - rg.min_col + 1) |-> DefaultColumnNames[rg.min_col + j - 1]]

\* "for column, category in zip(table.tableColumns, categories)": the names
\* of the first min(len) columns are replaced
name_columns(cols, cats) ==
    [j \in DOMAIN cols |-> IF j <= Len(cats) THEN cats[j] ELSE cols[j]]

\* NewExcelTable.__init__(ws, range, categories, name, initial_data); the
\* result is the exception that escapes, the worksheet's cells and the table
\* registered in the worksheet (a table added before the exception stays).
NewExcelTable_init(sheet, range, cats, initial_data) ==
    LET g == get_range_object(range)
    IN  IF g.exc # "none" THEN [exc |-> g.exc, ws |-> sheet, table |-> Absent]
        ELSE
        LET rg == IF cats # Absent THEN expand(g.rng, 0, header_expand_down, 0, 0) ELSE g.rng
            hdr == IF cats # Absent THEN write_to_row(sheet, rg, 0, cats[1])
                   ELSE [exc |-> "none", ws |-> sheet]
        IN  IF hdr.exc # "none" THEN [exc |-> hdr.exc, ws |-> sheet, table |-> Absent]
            ELSE
            LET tbl == [ref |-> CellRange_str(rg),
                        tableColumns |-> IF cats # Absent
                                         THEN name_columns(initialise_columns(rg), cats[1])
                                         ELSE <<>>]
                app == IF initial_data # Absent /\ initial_data[1] # <<>>
                       THEN ExcelTableWritable_append(hdr.ws, tbl, initial_data[1])
                       ELSE [exc |-> "none", ws |-> hdr.ws]
            IN  [exc |-> app.exc, ws |-> app.ws, table |-> Some(tbl)]

\* WorkbookEditor.add_table(ws, range, categories, name, initial_data)
add_table(sheet, range, cats, initial_data) ==
    NewExcelTable_init(sheet, range, Some(cats), initial_data)

(***************************************************************************)
(* easyxl.editor: the older ExcelRange and ExcelTable.  The constructor,   *)
(* rows, next_row, cells and is_empty of its ExcelRange are the code of    *)
(* base.py's, line for line.                                               *)
(***************************************************************************)
\* editor.ExcelRange.__init__
editor_ExcelRange_init(range_expression, coordinates) ==
    ExcelRange_init(range_expression, coordinates)

\* editor.ExcelRange.rows
editor_rows(rg) == rows(rg)

\* editor.ExcelRange.next_row
editor_next_row(rg) == next_row(rg)

\* editor.ExcelRange.cells
editor_cells(rg) == CellRange_cells(rg)

\* editor.ExcelRange.is_empty
editor_is_empty(sheet, rg) == is_empty(sheet, rg)

\* editor.ExcelRange.expand(rows, columns): the new range's expression
editor_expand(rg, nrows, ncolumns) ==
    CellRange_str(CellRange_expand(rg, ncolumns, nrows, 0, 0))

\* editor.ExcelRange.issubset
editor_issubset(rg, other) == CellRange_issubset(rg, other)

\* editor.ExcelTable.range
editor_range(tbl) == editor_ExcelRange_init(Some(tbl.ref), Absent).rng

\* editor.ExcelTable.first_free_row
editor_first_free_row(sheet, tbl) ==
    LET rg == editor_range(tbl)
        rr == SubSeq(editor_rows(rg), 2, Len(editor_rows(rg)))
        free == {i \in DOMAIN rr : editor_is_empty(sheet, rr[i])}
    IN  IF free # {}
        THEN [exc |-> "none", rng |-> rr[CHOOSE i \in free : \A j \in free : i <= j]]
        ELSE editor_next_row(rg)

\* "for i, cell in enumerate(working_row.cells): cell.value = data_row[i]":
\* the number of cells assigned before the loop ends or data_row[i] raises
assigned_cells(working_row, data_row) ==
    Min2(Len(editor_cells(working_row)), Len(data_row))

\* The table after "if not working_row.issubset(self.range): ..."
expand_if_outside(tbl, working_row) ==
    IF ~ editor_issubset(working_row, editor_range(tbl))
    THEN [tbl EXCEPT !.ref = editor_expand(editor_range(tbl), 1, 0)]
    ELSE tbl

\* editor.ExcelTable.append(data) for list-form data: the rows in order,
\* stopping at the first exception.  log records, per data row, the working
\* row, how many of its cells were assigned and whether it lay outside the
\* table's range when it was written.
RECURSIVE editor_append_rows(_, _, _, _)
editor_append_rows(sheet, tbl, data, log) ==
    IF data = <<>> THEN [exc |-> "none", ws |-> sheet, table |-> tbl, log |-> log]
    ELSE
    LET f == editor_first_free_row(sheet, tbl)
    IN  IF f.exc # "none" THEN [exc |-> f.exc, ws |-> sheet, table |-> tbl, log |-> log]
        ELSE
        LET working_row == f.rng
            data_row == Head(data)
            n == assigned_cells(working_row, data_row)
            written == write_items(sheet, working_row, SubSeq(data_row, 1, n))
            entry == [row |-> working_row, assigned |-> n,
                      below |-> ~ editor_issubset(working_row, editor_range(tbl))]
        IN  IF Len(data_row) < Len(editor_cells(working_row))
            THEN [exc |-> "IndexError", ws |-> written, table |-> tbl,
                  log |-> Append(log, entry)]
            ELSE editor_append_rows(written, expand_if_outside(tbl, working_row),
                                    Tail(data), Append(log, entry))

\* editor.ExcelTable.append(data): dict-form data is ignored
editor_append(sheet, tbl, data) ==
    IF data.kind = "list" THEN editor_append_rows(sheet, tbl, data.rows, <<>>)
    ELSE [exc |-> "none", ws |-> sheet, table |-> tbl, log |-> <<>>]

(***************************************************************************)
(* Inputs                                                                  *)
(***************************************************************************)
\* The well-formed ranges inside rows 1..MaxRow and columns 1..MaxCol
Ranges ==
    {[min_row |-> r1, min_col |-> c1, max_row |-> r2, max_col |-> c2] :
        r1 \in 1..MaxRow, c1 \in 1..MaxCol, r2 \in 1..MaxRow, c2 \in 1..MaxCol}
    \ {rg \in [min_row : 1..MaxRow, min_col : 1..MaxCol,
               max_row : 1..MaxRow, max_col : 1..MaxCol] :
          rg.min_row > rg.max_row \/ rg.min_col > rg.max_col}

\* Cell tokens of range expressions: known and unknown columns, rows from 0
Tokens ==
    [col : {Letters[c] : c \in 1..MaxCol} \cup {"?"}, row : 0..MaxRow]

\* Range expressions: the empty string, one cell, two cells
Expressions ==
    {<<>>} \cup {<<t>> : t \in Tokens} \cup {<<t, u>> : t \in Tokens, u \in Tokens}

\* Coordinate pairs ((row, col), (row, col)), from 0
CoordinatePairs ==
    {<<<<r1, c1>>, <<r2, c2>>>> :
        r1 \in 0..MaxRow, c1 \in 0..MaxCol, r2 \in 0..MaxRow, c2 \in 0..MaxCol}

WsRows == 1..(MaxRow + 1)
WsCols == 1..MaxCol

BlankSheet == [p \in WsRows \X WsCols |-> PyNone]

NoTable == Absent

\* The contents a worksheet row is loaded with: all None, all "a", or only
\* the last column "a"
RowKinds == {"none", "full", "tail"}

RowCell(kind, c) ==
    CASE kind = "none" -> PyNone
      [] kind = "full" -> "s:a"
      [] kind = "tail" -> IF c = MaxCol THEN "s:a" ELSE PyNone

\* Loaded worksheets: rows 1..MaxRow of any kind, nothing below them
LoadedSheets ==
    {[p \in WsRows \X WsCols |-> IF p[1] <= MaxRow THEN RowCell(k[p[1]], p[2]) ELSE PyNone] :
        k \in [1..MaxRow -> RowKinds]}

\* Data rows: the first n items of XVals, or n times None
Vals(n) == [i \in 1..n |-> XVals[i]]
Nones(n) == [i \in 1..n |-> PyNone]

Height(rg) == rg.max_row - rg.min_row + 1
Width(rg) == rg.max_col - rg.min_col + 1

\* Data rows offered to a range: up to one item more than its width
DataRows(rg) ==
    {Vals(n) : n \in 0..(Width(rg) + 1)} \cup {Nones(Width(rg))}

\* Lists of data rows offered to a range: one or two rows, each as wide as the
\* range or one item wider, and one list with a row more than the range has
DataLists(rg) ==
    LET fit == Vals(Width(rg))
        wide == Vals(Width(rg) + 1)
    IN  {<<fit>>, <<wide>>, <<fit, fit>>, <<fit, wide>>, <<wide, fit>>,
         [i \in 1..(Height(rg) + 1) |-> fit]}

\* Row indexes offered to a range: from one before its first negative index
\* to one past its last row
Indexes(rg) == (-(Height(rg) + 1))..Height(rg)

(***************************************************************************)
(* Range addressing: the constructor and the derived sub-ranges.           *)
(***************************************************************************)
InitRange ==
    /\ ws = BlankSheet
    /\ table = NoTable
    /\ last = [op |-> "start"]

\* ExcelRange(ws, range_expression=e)
ConstructFromExpression ==
    /\ \E e \in Expressions :
          last' = [op |-> "init_expr", expr |-> e,
                   res |-> ExcelRange_init(Some(e), Absent)]
    /\ UNCHANGED <<ws, table>>

\* ExcelRange(ws, coordinates=c)
ConstructFromCoordinates ==
    /\ \E c \in CoordinatePairs :
          last' = [op |-> "init_coords", coords |-> c,
                   res |-> ExcelRange_init(Absent, Some(c))]
    /\ UNCHANGED <<ws, table>>

\* ExcelRange(ws)
ConstructFromNothing ==
    /\ last' = [op |-> "init_nothing", res |-> ExcelRange_init(Absent, Absent)]
    /\ UNCHANGED <<ws, table>>

\* range.rows
GetRows ==
    /\ \E rg \in Ranges :
          last' = [op |-> "rows", rng |-> rg, res |-> rows(rg), after |-> rg]
    /\ UNCHANGED <<ws, table>>

\* range.columns
GetColumns ==
    /\ \E rg \in Ranges :
          last' = [op |-> "columns", rng |-> rg, res |-> columns(rg), after |-> rg]
    /\ UNCHANGED <<ws, table>>

\* range.next_row; the receiver's own CellRange is not touched (the shift is
\* applied to the new object's CellRange)
GetNextRow ==
    /\ \E rg \in Ranges :
          last' = [op |-> "next_row", rng |-> rg, res |-> next_row(rg), after |-> rg]
    /\ UNCHANGED <<ws, table>>

NextRange ==
    \/ ConstructFromExpression
    \/ ConstructFromCoordinates
    \/ ConstructFromNothing
    \/ GetRows
    \/ GetColumns
    \/ GetNextRow

SpecRange == InitRange /\ [][NextRange]_vars

(***************************************************************************)
(* Range reading and mutation on a loaded worksheet: one call of a client  *)
(* on a range of the worksheet.                                            *)
(***************************************************************************)
\* The worksheet is as it was loaded: no call has been made on it yet
Loaded == last.op = "start"

Init ==
    /\ ws \in LoadedSheets
    /\ table = NoTable
    /\ last = [op |-> "start"]

\* range.first_free_row
GetFirstFreeRow ==
    /\ Loaded
    /\ \E rg \in Ranges :
          last' = [op |-> "first_free_row", rng |-> rg, res |-> first_free_row(ws, rg)]
    /\ UNCHANGED <<ws, table>>

\* range.last_free_block
GetLastFreeBlock ==
    /\ Loaded
    /\ \E rg \in Ranges :
          last' = [op |-> "last_free_block", rng |-> rg, res |-> last_free_block(ws, rg)]
    /\ UNCHANGED <<ws, table>>

\* range.write_to_row(index, data)
WriteToRow ==
    /\ Loaded
    /\ \E rg \in Ranges : \E index \in Indexes(rg), data \in DataRows(rg) :
          \E r \in {write_to_row(ws, rg, index, data)} :
              /\ ws' = r.ws
              /\ last' = [op |-> "write_to_row", rng |-> rg, index |-> index,
                          data |-> data, exc |-> r.exc, pre |-> ws]
    /\ UNCHANGED table

\* range.write_to_first_empty_row(data)
WriteToFirstEmptyRow ==
    /\ Loaded
    /\ \E rg \in Ranges : \E data \in DataRows(rg) :
          \E r \in {write_to_first_empty_row(ws, rg, data)} :
              /\ ws' = r.ws
              /\ last' = [op |-> "write_to_first_empty_row", rng |-> rg,
                          data |-> data, exc |-> r.exc, pre |-> ws]
    /\ UNCHANGED table

\* range.write_data(data)
WriteData ==
    /\ Loaded
    /\ \E rg \in Ranges : \E data \in DataLists(rg) :
          \E r \in {write_data(ws, rg, data)} :
              /\ ws' = r.ws
              /\ last' = [op |-> "write_data", rng |-> rg,
                          data |-> data, exc |-> r.exc, pre |-> ws]
    /\ UNCHANGED table

\* range.append_data(data)
AppendData ==
    /\ Loaded
    /\ \E rg \in Ranges : \E data \in DataLists(rg) :
          \E r \in {append_data(ws, rg, data)} :
              /\ ws' = r.ws
              /\ last' = [op |-> "append_data", rng |-> rg,
                          data |-> data, exc |-> r.exc, pre |-> ws]
    /\ UNCHANGED table

Next ==
    \/ GetFirstFreeRow
    \/ GetLastFreeBlock
    \/ WriteToRow
    \/ WriteToFirstEmptyRow
    \/ WriteData
    \/ AppendData

Spec == Init /\ [][Next]_vars

(***************************************************************************)
(* Tables of base.py on a loaded worksheet: a table is created, or one the *)
(* workbook was loaded with is wrapped, and rows are appended to it.       *)
(***************************************************************************)
\* The tables a workbook is loaded with: any range, one named column per
\* column of the range
LoadedTables ==
    {[ref |-> CellRange_str(rg), tableColumns |-> Vals(Width(rg))] : rg \in Ranges}

\* The range argument of NewExcelTable: an ExcelRange object, or the str of
\* its expression
RangeArguments == [kind : {"ExcelRange", "str"}, rng : Ranges]

\* Category lists offered for a range: one fewer than, as many as, and one
\* more than its columns
CategoryLists(rg) == {Vals(n) : n \in {Width(rg) - 1, Width(rg), Width(rg) + 1} \cap Nat}

SeqEntry(items) == [kind |-> "seq", items |-> items]
DictEntry(items) == [kind |-> "dict", items |-> items]

\* A row of n numbers 0
Zeros(n) == [i \in 1..n |-> "i:0"]

\* Entries offered to a table of w columns: a full row, a row one item too
\* long, a row of None, a row of 0, a dict on the first category, a dict on
\* no category
Entries(w) ==
    {SeqEntry(Vals(w)), SeqEntry(Vals(w + 1)), SeqEntry(Nones(w)), SeqEntry(Zeros(w)),
     DictEntry([k \in {XVals[1]} |-> "s:a"]), DictEntry([k \in {"s:nokey"} |-> "s:a"])}

\* TableData offered to a table of w columns: one or two entries
TableDatas(w) ==
    {<<e>> : e \in Entries(w)} \cup {<<e, f>> : e \in Entries(w), f \in Entries(w)}

InitTable ==
    /\ ws \in LoadedSheets
    /\ table \in {NoTable} \cup {Some(t) : t \in LoadedTables}
    /\ last = [op |-> "start"]

\* NewExcelTable(ws, range, categories, initial_data=...)
CreateTable ==
    /\ Loaded
    /\ table = NoTable
    /\ \E range \in RangeArguments :
       \E cats \in {Absent} \cup {Some(c) : c \in CategoryLists(range.rng)},
          initial_data \in {Absent, Some(<<SeqEntry(Vals(Width(range.rng)))>>)} :
          \E r \in {NewExcelTable_init(ws, range, cats, initial_data)} :
              /\ ws' = r.ws
              /\ table' = r.table
              /\ last' = [op |-> "NewExcelTable", range |-> range, categories |-> cats,
                          initial_data |-> initial_data, exc |-> r.exc, pre |-> ws]

\* WorkbookEditor.add_table(ws, range, categories)
AddTable ==
    /\ Loaded
    /\ table = NoTable
    /\ \E range \in RangeArguments : \E cats \in CategoryLists(range.rng) :
          \E r \in {add_table(ws, range, cats, Absent)} :
              /\ ws' = r.ws
              /\ table' = r.table
              /\ last' = [op |-> "add_table", range |-> range, categories |-> Some(cats),
                          initial_data |-> Absent, exc |-> r.exc, pre |-> ws]

\* table.first_free_row
GetTableFirstFreeRow ==
    /\ Loaded
    /\ table # NoTable
    /\ last' = [op |-> "table_first_free_row",
                res |-> ExcelTable_first_free_row(ws, table[1])]
    /\ UNCHANGED <<ws, table>>

\* table.append(data); the wrapped Table's ref is not assigned
AppendToTable ==
    /\ Loaded
    /\ table # NoTable
    /\ \E data \in TableDatas(Len(table[1].tableColumns)) :
          \E r \in {ExcelTableWritable_append(ws, table[1], data)} :
              /\ ws' = r.ws
              /\ last' = [op |-> "append", data |-> data, exc |-> r.exc, pre |-> ws,
                          pretable |-> table[1]]
    /\ UNCHANGED table

NextTable ==
    \/ CreateTable
    \/ AddTable
    \/ GetTableFirstFreeRow
    \/ AppendToTable

SpecTable == InitTable /\ [][NextTable]_vars

(***************************************************************************)
(* The table of editor.py on a loaded worksheet: rows are appended to a    *)
(* table the workbook was loaded with, call after call.                    *)
(***************************************************************************)
\* Data rows offered to a table of w columns: a full row, a row one item
\* short, a row of None
EditorRows(w) == {Vals(w), Vals(w - 1), Nones(w)}

\* List-form data of one or two rows, and dict-form data
EditorDatas(w) ==
    {[kind |-> "list", rows |-> <<r>>] : r \in EditorRows(w)}
    \cup {[kind |-> "list", rows |-> <<r, q>>] : r \in EditorRows(w), q \in EditorRows(w)}
    \cup {[kind |-> "dict", rows |-> <<>>]}

InitEditor ==
    /\ ws \in LoadedSheets
    /\ table \in {Some(t) : t \in LoadedTables}
    /\ last = [op |-> "start"]

\* table.append(data); the rows written stay inside the modelled worksheet
EditorAppend ==
    /\ \E data \in EditorDatas(Width(editor_range(table[1]))) :
          /\ editor_range(table[1]).max_row + Len(data.rows) <= MaxRow + 1
          /\ \E r \in {editor_append(ws, table[1], data)} :
                 /\ ws' = r.ws
                 /\ table' = Some(r.table)
                 /\ last' = [op |-> "editor_append", data |-> data, exc |-> r.exc,
                             log |-> r.log, pretable |-> table[1]]

\* table.first_free_row
EditorFirstFreeRow ==
    /\ last' = [op |-> "editor_first_free_row",
                res |-> editor_first_free_row(ws, table[1])]
    /\ UNCHANGED <<ws, table>>

NextEditor ==
    \/ EditorAppend
    \/ EditorFirstFreeRow

SpecEditor == InitEditor /\ [][NextEditor]_vars

(***************************************************************************)
(* Emptiness of ranges on a worksheet loaded with values of several types: *)
(* is_empty of base.py and of editor.py, and the row searches built on it. *)
(***************************************************************************)
\* The values a loaded cell may hold: None, "", " ", "a", 0, False
CellValues == {PyNone, "s:", "s: ", "s:a", "i:0", "b:False"}

\* Loaded worksheets: any value in the first column of rows 1..MaxRow, None
\* everywhere else
ValueSheets ==
    {[p \in WsRows \X WsCols |-> IF p[1] <= MaxRow /\ p[2] = 1 THEN v[p[1]] ELSE PyNone] :
        v \in [1..MaxRow -> CellValues]}

InitEmpty ==
    /\ ws \in ValueSheets
    /\ table = NoTable
    /\ last = [op |-> "start"]

\* range.is_empty()
IsEmpty ==
    /\ Loaded
    /\ \E rg \in Ranges :
          last' = [op |-> "is_empty", rng |-> rg, res |-> is_empty(ws, rg)]
    /\ UNCHANGED <<ws, table>>

\* editor.ExcelRange.is_empty()
EditorIsEmpty ==
    /\ Loaded
    /\ \E rg \in Ranges :
          last' = [op |-> "editor_is_empty", rng |-> rg, res |-> editor_is_empty(ws, rg)]
    /\ UNCHANGED <<ws, table>>

NextEmpty ==
    \/ IsEmpty
    \/ EditorIsEmpty
    \/ GetFirstFreeRow
    \/ WriteToFirstEmptyRow

SpecEmpty == InitEmpty /\ [][NextEmpty]_vars

(***************************************************************************)
(* Properties                                                              *)
(***************************************************************************)
\* The one-row range at row r spanning columns c1..c2
RowRange(r, c1, c2) == [min_row |-> r, min_col |-> c1, max_row |-> r, max_col |-> c2]

\* The one-column range at column c spanning rows r1..r2
ColRange(c, r1, r2) == [min_row |-> r1, min_col |-> c, max_row |-> r2, max_col |-> c]

\* The worksheet positions a well-formed range covers
CellsOf(rg) == (rg.min_row..rg.max_row) \X (rg.min_col..rg.max_col)

\* C4: next_row of a range spanning rows r1..r2 and columns c1..c2 is the
\* one-row range at row r2+1 spanning exactly columns c1..c2, for every width
\* including one column, and the receiver's bounds are unchanged.
C4_NextRowSpansWidth ==
    last.op = "next_row" =>
        /\ last.res.exc = "none"
        /\ last.res.rng = RowRange(last.rng.max_row + 1, last.rng.min_col, last.rng.max_col)
        /\ last.after = last.rng

\* A well-formed range expression: one or two cells with known columns and
\* rows from 1, the second not above or left of the first
ValidExpression(e) ==
    /\ Len(e) \in {1, 2}
    /\ \A i \in DOMAIN e : e[i].col \in {Letters[c] : c \in DOMAIN Letters} /\ e[i].row >= 1
    /\ column_index_from_string(e[1].col) <= column_index_from_string(e[Len(e)].col)
    /\ e[1].row <= e[Len(e)].row

\* A well-formed coordinate pair: both corners from (1, 1), the second not
\* above or left of the first
ValidCoordinates(c) ==
    /\ c[1][1] >= 1 /\ c[1][2] >= 1
    /\ c[1][1] <= c[2][1] /\ c[1][2] <= c[2][2]

\* C8: constructing an ExcelRange from an invalid expression, from an invalid
\* coordinate pair, or from neither raises InvalidRangeFormat, and no other
\* exception type escapes the constructor.
C8_InvalidInputRaisesInvalidRangeFormat ==
    /\ (last.op = "init_expr" /\ ~ ValidExpression(last.expr))
          => last.res.exc = "InvalidRangeFormat"
    /\ (last.op = "init_coords" /\ ~ ValidCoordinates(last.coords))
          => last.res.exc = "InvalidRangeFormat"
    /\ last.op = "init_nothing" => last.res.exc = "InvalidRangeFormat"

\* C9: rows is the list of the r2-r1+1 one-row ranges, top to bottom, each
\* spanning columns c1..c2; columns is the list of the c2-c1+1 one-column
\* ranges, left to right, each spanning rows r1..r2; either list is pairwise
\* disjoint and covers exactly the cells of the range.
C9_RowsAndColumnsPartition ==
    /\ last.op = "rows" =>
          /\ Len(last.res) = last.rng.max_row - last.rng.min_row + 1
          /\ \A i \in DOMAIN last.res :
                last.res[i] = RowRange(last.rng.min_row + i - 1,
                                       last.rng.min_col, last.rng.max_col)
    /\ last.op = "columns" =>
          /\ Len(last.res) = last.rng.max_col - last.rng.min_col + 1
          /\ \A j \in DOMAIN last.res :
                last.res[j] = ColRange(last.rng.min_col + j - 1,
                                       last.rng.min_row, last.rng.max_row)
    /\ last.op \in {"rows", "columns"} =>
          /\ \A i, j \in DOMAIN last.res :
                i # j => CellsOf(last.res[i]) \cap CellsOf(last.res[j]) = {}
          /\ UNION {CellsOf(last.res[i]) : i \in DOMAIN last.res} = CellsOf(last.rng)

\* rows was taken of a range of several rows and several columns that does
\* not start at A1
C9_Witness ==
    /\ last.op = "rows"
    /\ Len(last.res) >= 2
    /\ last.rng.min_col >= 2
    /\ last.rng.max_col > last.rng.min_col

\* The rows of range rg, as worksheet row numbers, that is_empty reports empty
EmptyRowsOf(sheet, rg) ==
    {r \in rg.min_row..rg.max_row :
        is_empty(sheet, RowRange(r, rg.min_col, rg.max_col))}

\* C5: last_free_block returns None exactly when the range has no empty row;
\* otherwise it returns a sub-range of the range, of the range's full width,
\* in which every row is empty.
C5_LastFreeBlockIsFree ==
    last.op = "last_free_block" =>
        /\ last.res.exc = "none"
        /\ (last.res.val = Absent) <=> (EmptyRowsOf(ws, last.rng) = {})
        /\ last.res.val # Absent =>
              LET block == last.res.val[1]
              IN  /\ CellRange_issubset(block, last.rng)
                  /\ block.min_col = last.rng.min_col
                  /\ block.max_col = last.rng.max_col
                  /\ \A r \in block.min_row..block.max_row :
                        r \in EmptyRowsOf(ws, last.rng)

\* C6: write_to_first_empty_row with data no longer than the range's width
\* writes the data into the topmost row is_empty reports empty and changes no
\* other cell; when no row is empty it raises and changes no cell.
C6_WriteToFirstEmptyRow ==
    (last.op = "write_to_first_empty_row" /\ Len(last.data) <= Width(last.rng)) =>
        LET free == EmptyRowsOf(last.pre, last.rng)
        IN  IF free = {}
            THEN last.exc = "Exception" /\ ws = last.pre
            ELSE LET top == CHOOSE r \in free : \A q \in free : r <= q
                     written == {<<top, last.rng.min_col + i - 1>> : i \in DOMAIN last.data}
                 IN  /\ last.exc = "none"
                     /\ \A i \in DOMAIN last.data :
                           ws[<<top, last.rng.min_col + i - 1>>] = last.data[i]
                     /\ \A p \in DOMAIN ws : p \notin written => ws[p] = last.pre[p]

\* Data was written into an empty row that is not the first row of the range
C6_Witness ==
    /\ last.op = "write_to_first_empty_row"
    /\ last.exc = "none"
    /\ Len(last.data) = Width(last.rng)
    /\ last.data = Vals(Width(last.rng))
    /\ last.rng.min_row \notin EmptyRowsOf(last.pre, last.rng)
    /\ ws # last.pre

\* C10: write_to_row(index, data) succeeds only when 0 <= index < number of
\* rows and len(data) does not exceed the width; on success the first
\* len(data) cells of that row hold the data in order and every other cell is
\* unchanged; otherwise it raises and no cell is changed.
C10_WriteToRow ==
    last.op = "write_to_row" =>
        LET ok == /\ 0 <= last.index /\ last.index < Height(last.rng)
                  /\ Len(last.data) <= Width(last.rng)
            row == last.rng.min_row + last.index
            written == {<<row, last.rng.min_col + i - 1>> : i \in DOMAIN last.data}
        IN  IF ok
            THEN /\ last.exc = "none"
                 /\ \A i \in DOMAIN last.data :
                       ws[<<row, last.rng.min_col + i - 1>>] = last.data[i]
                 /\ \A p \in DOMAIN ws : p \notin written => ws[p] = last.pre[p]
            ELSE last.exc # "none" /\ ws = last.pre

\* C1: appending a row to a table whose declared extent contains no empty
\* row succeeds, and afterwards the extent has grown to include the row that
\* was written.
C1_AppendAutoExpands ==
    (/\ last.op = "append"
     /\ EmptyRowsOf(last.pre, ExcelTable_range(last.pretable)) = {}
     /\ last.data = <<SeqEntry(Vals(Width(ExcelTable_range(last.pretable))))>>) =>
        LET old == ExcelTable_range(last.pretable)
            new == ExcelTable_range(table[1])
        IN  /\ last.exc = "none"
            /\ new.min_row = old.min_row
            /\ new.min_col = old.min_col /\ new.max_col = old.max_col
            /\ new.max_row > old.max_row
            /\ \E r \in (old.max_row + 1)..new.max_row :
                  \A i \in 1..Width(old) : ws[<<r, old.min_col + i - 1>>] = XVals[i]

\* C2: after editor.ExcelTable.append with list-form data every row append
\* wrote into lies inside the declared extent; the extent keeps its top row
\* and its columns, never shrinks, and has grown by one row per row written
\* below its last row.
C2_EditorExtentConsistent ==
    (last.op = "editor_append" /\ last.data.kind = "list") =>
        LET old == editor_range(last.pretable)
            new == editor_range(table[1])
            wrote == {i \in DOMAIN last.log : last.log[i].assigned > 0}
        IN  /\ \A i \in wrote : CellRange_issubset(last.log[i].row, new)
            /\ new.min_row = old.min_row
            /\ new.min_col = old.min_col /\ new.max_col = old.max_col
            /\ new.max_row >= old.max_row
            /\ new.max_row - old.max_row
                  = Cardinality({i \in wrote : last.log[i].below})

\* C3: ExcelTable.first_free_row never returns the header row: it returns the
\* topmost empty row below the header inside the extent, and the row right
\* below the extent's last row when there is none.
C3_TableFirstFreeRow ==
    last.op = "table_first_free_row" =>
        LET rg == ExcelTable_range(table[1])
            below == EmptyRowsOf(ws, rg) \ {rg.min_row}
        IN  /\ last.res.exc = "none"
            /\ last.res.rng # RowRange(rg.min_row, rg.min_col, rg.max_col)
            /\ IF below # {}
               THEN last.res.rng = RowRange(CHOOSE r \in below : \A q \in below : r <= q,
                                            rg.min_col, rg.max_col)
               ELSE last.res.rng = RowRange(rg.max_row + 1, rg.min_col, rg.max_col)

\* C7: creating a table over a range R with a list of categories registers a
\* table whose declared extent is exactly R, whose first row holds the
\* categories in order, and whose categories property returns that list.
\* (R is given as an ExcelRange of at least two rows, with one category per
\* column of R and no initial data.)
C7_CreatedTableMatchesRange ==
    (/\ last.op \in {"NewExcelTable", "add_table"}
     /\ last.range.kind = "ExcelRange"
     /\ Height(last.range.rng) >= 2
     /\ last.categories = Some(Vals(Width(last.range.rng)))
     /\ last.initial_data = Absent) =>
        /\ last.exc = "none"
        /\ table # NoTable
        /\ ExcelTable_range(table[1]) = last.range.rng
        /\ \A j \in 1..Width(last.range.rng) :
              ws[<<last.range.rng.min_row, last.range.rng.min_col + j - 1>>] = XVals[j]
        /\ categories(table[1]) = last.categories[1]

\* C11: append_data never overwrites existing data: every cell of a row of
\* the range that was not empty before the call holds the same value after
\* it, whether the call returns or raises.
C11_AppendDataKeepsData ==
    last.op = "append_data" =>
        \A r \in (last.rng.min_row..last.rng.max_row) \ EmptyRowsOf(last.pre, last.rng) :
            \A c \in last.rng.min_col..last.rng.max_col :
                ws[<<r, c>>] = last.pre[<<r, c>>]

\* C12: write_data is all-or-nothing: whenever it raises, no cell of the
\* worksheet has been changed, also when the offending data row is not the
\* first one.
C12_WriteDataAllOrNothing ==
    (last.op = "write_data" /\ last.exc # "none") => ws = last.pre

\* The k-th row, top to bottom, of a set of rows
KthRow(S, k) == CHOOSE r \in S : Cardinality({q \in S : q < r}) = k - 1

\* An entry a table of these categories takes: a sequence no longer than the
\* categories, or a dict keyed by categories
FittingEntry(cats, entry) ==
    IF entry.kind = "dict"
    THEN \A k \in DOMAIN entry.items : \E i \in DOMAIN cats : cats[i] = k
    ELSE Len(entry.items) <= Len(cats)

\* C13: append of n entries to a table whose extent has at least n empty
\* rows returns, and entry k is then found in the k-th empty row, top to
\* bottom, of the extent as it was before the call; no other cell changed.
C13_AppendOneRowPerEntry ==
    (/\ last.op = "append"
     /\ \A k \in DOMAIN last.data : FittingEntry(categories(last.pretable), last.data[k])
     /\ Cardinality(EmptyRowsOf(last.pre, ExcelTable_range(last.pretable))) >= Len(last.data)) =>
        LET rg == ExcelTable_range(last.pretable)
            free == EmptyRowsOf(last.pre, rg)
            vals(k) == row_values(categories(last.pretable), last.data[k]).values
            written == {<<KthRow(free, k), rg.min_col + i - 1>> :
                            k \in DOMAIN last.data, i \in 1..Width(rg)}
        IN  /\ last.exc = "none"
            /\ \A k \in DOMAIN last.data : \A i \in DOMAIN vals(k) :
                  ws[<<KthRow(free, k), rg.min_col + i - 1>>] = vals(k)[i]
            /\ \A p \in DOMAIN ws : p \notin written => ws[p] = last.pre[p]

\* A value that is no value: None, or a string blank after stripping
BlankValue(v) == v = PyNone \/ (IsStr(v) /\ Strip(v) = "s:")

\* Every cell of the range holds no value or a blank string
AllBlank(sheet, rg) == \A p \in CellsOf(rg) : BlankValue(sheet[p])

\* C14: is_empty returns True exactly when every cell of the range holds None
\* or a string that is blank after stripping; a range holding any other
\* value, 0 and False included, is reported as not empty, so first_free_row
\* never returns such a row and write_to_first_empty_row never changes it.
C14_IsEmptyMeansBlank ==
    /\ last.op \in {"is_empty", "editor_is_empty"} =>
          (last.res <=> AllBlank(ws, last.rng))
    /\ (last.op = "first_free_row" /\ last.res # Absent) => AllBlank(ws, last.res[1])
    /\ last.op = "write_to_first_empty_row" =>
          \A r \in last.rng.min_row..last.rng.max_row :
             ~ AllBlank(last.pre, RowRange(r, last.rng.min_col, last.rng.max_col)) =>
                \A c \in last.rng.min_col..last.rng.max_col :
                    ws[<<r, c>>] = last.pre[<<r, c>>]

=============================================================================
